---- MODULE Spec2Model ----
(***************************************************************************)
(* DrawCraftAI: the DrawingApp controller of src/src/app.ts.               *)
(*                                                                         *)
(* Spec      - the canvas: construction, tool buttons, navigation mode,    *)
(*             stage panning, window resize, pointer gestures that draw    *)
(*             shapes and create text, clear.                              *)
(* SpecPlace - the placed-image list: placeImageOnCanvas with its image    *)
(*             cache and asynchronous decode.                              *)
(* SpecDrop  - placeImageOnCanvas next to the drag-and-drop placement      *)
(*             (startDraggableImage, finalizeDrag), with failing decodes.  *)
(* SpecRegistry - placing, selecting, deselecting and deleting placed      *)
(*             images, and the keyboard.                                   *)
(* SpecPointer - the stage's pointer handlers over a placed image.         *)
(* SpecView, SpecFit - the viewport alone.                                 *)
(* SpecThumb - the thumbnails of the generated images: double-click        *)
(*             placement with its delayed tool reset, next to the tool     *)
(*             buttons.                                                    *)
(* SpecGesture - the same next to the drawing gestures.                    *)
(* SpecGenerate - reimagineImage and generateImages: three fetches in a    *)
(*             row, runs that overlap.                                     *)
(* SpecProxy - src/proxy-server.js: the four routes, request by request.   *)
(*                                                                         *)
(* Coordinates are JavaScript numbers.  Stage and pointer coordinates stay *)
(* integers for the inputs drawn here (container sizes are even, so the    *)
(* division by two of updateCanvasSize is exact).  The placed-image boxes  *)
(* are quotients and are kept as exact fractions; binary floating-point    *)
(* rounding is not represented.                                            *)
(***************************************************************************)
EXTENDS Integers, Sequences, FiniteSets, TLC

VARIABLES
    phase,              \* position of the DrawingApp constructor
    containerSize,      \* bounding rect of #canvas-container (the viewport)
    canvasSize,         \* this.canvas.width / this.canvas.height
    stage,              \* this.stage: NoStage or [defined, x, y, width, height, draggable]
    isNavigationMode,   \* this.isNavigationMode
    currentTool,        \* this.currentTool
    isDrawing,          \* this.isDrawing
    startPoint,         \* this.startPoint
    activeShape,        \* this.activeShape: a node id or NoShape
    drawingPoints,      \* this.drawingPoints
    nodes,              \* the Konva nodes that are still referenced, by id
    layer,              \* children of this.shapeLayer, bottom to top (node ids)
    transformerNodes,   \* this.transformer.nodes()
    placedImages,       \* this.placedImages
    imageCache,         \* this.imageCache (the urls it holds)
    loading,            \* Image objects whose decode is in flight, oldest first
    selectedImageId,    \* this.selectedImageId: an id or NoId
    dragOffset,         \* this.dragOffsetX / this.dragOffsetY
    currentDragImage,   \* this.currentDragImage: NoDrag or its url and
                        \* the style.width / style.height of its element
    now,                \* Date.now()
    alerts,             \* number of alert() notifications shown
    event,              \* the event handled last: its name and its pointer
                        \* position (container-relative) or drag movement
    generatedImages,    \* this.generatedImages (the thumbnails show them)
    loadingIndicator,   \* this.loadingIndicator.style.display = 'block'
    runs,               \* the calls of reimagineImage / generateImages, in
                        \* the order they started, each with its position
    toolResets,         \* pending 100 ms timers of the thumbnails' dblclick
    requests            \* proxy-server.js: the requests received, by slot

vars == <<phase, containerSize, canvasSize, stage, isNavigationMode,
          currentTool, isDrawing, startPoint,
          activeShape, drawingPoints, nodes, layer, transformerNodes, placedImages, imageCache,
          loading, selectedImageId, dragOffset, currentDragImage,
          now, alerts, event,
          generatedImages, loadingIndicator, runs, toolResets, requests>>

canvasVars  == <<isNavigationMode, currentTool,
                 isDrawing, startPoint, activeShape, drawingPoints, nodes,
                 layer, transformerNodes>>
drawVars    == <<isDrawing, startPoint, activeShape, drawingPoints, nodes,
                 layer, transformerNodes>>
placeVars   == <<placedImages, imageCache, loading, selectedImageId,
                 dragOffset, currentDragImage, now, alerts>>
selectVars  == <<selectedImageId, dragOffset, currentDragImage>>
viewVars    == <<phase, containerSize, canvasSize, stage>>
genVars     == <<generatedImages, loadingIndicator, runs>>
extVars     == <<genVars, toolResets, requests>>

-----------------------------------------------------------------------------
(* Program constants *)

virtualCanvasWidth  == 3000
virtualCanvasHeight == 3000
maxSize             == 300

ToolButtons == {"pencil", "text", "navigation", "circle", "rectangle", "square"}

(* Bounds of the model *)

MaxShapes      == 1     \* Konva nodes alive at once
MaxPointCoords == 6     \* numbers held by a pencil line's point list
MaxImages      == 1     \* placed images
MaxClock       == 1     \* milliseconds Date.now() advances
MaxAlerts      == 1     \* alert() notifications counted
MaxLoading     == 1     \* image decodes in flight at once
MaxPlaced      == 2     \* placed images, where they are selected and deleted
MaxDecodes     == 2     \* image decodes in flight at once, in the same
MaxTimers      == 1     \* pending timers of the thumbnails' dblclick
MaxRuns        == 2     \* calls of reimagineImage / generateImages
MaxRequests    == 2     \* requests the proxy receives

(* Inputs *)

ContainerSizes == { [width |-> 800,  height |-> 600],
                    [width |-> 1200, height |-> 900],
                    [width |-> 3200, height |-> 600] }
PanDeltas      == { [x |-> -2500, y |-> 0], [x |-> 0, y |-> -2500],
                    [x |-> 2500, y |-> 2500], [x |-> -300, y |-> -200],
                    [x |-> 150, y |-> 0] }
\* the smaller choice of sizes and deltas used together with the gestures
GestureSizes   == { [width |-> 800,  height |-> 600] }
GestureDeltas  == { [x |-> -2500, y |-> 0] }
PointerPoints  == { [x |-> 100, y |-> 100], [x |-> 400, y |-> 300] }

NoStage == [defined |-> FALSE]
NoNode  == [kind |-> "none"]
NoShape == 0
NoId    == <<>>
NoDrag  == [active |-> FALSE]
NodeIds == 1..MaxShapes

-----------------------------------------------------------------------------
(* Viewport *)

Point(px, py) == [x |-> px, y |-> py]

StagePosition(st) == Point(st.x, st.y)

\* limitDragBoundaries with the lower limits left out
limitDragBoundaries_NoMin(st) ==
    LET pos == StagePosition(st)
        s1  == IF pos.x > 0 THEN [st EXCEPT !.x = 0] ELSE st
        s2  == IF pos.y > 0 THEN [s1 EXCEPT !.y = 0] ELSE s1
    IN  s2

\* limitDragBoundaries that eases the stage back by half of the overshoot
limitDragBoundaries_Elastic(st) ==
    LET pos  == StagePosition(st)
        minX == -(virtualCanvasWidth - st.width)
        minY == -(virtualCanvasHeight - st.height)
        s1   == IF pos.x > 0 THEN [st EXCEPT !.x = pos.x \div 2] ELSE st
        s2   == IF pos.y > 0 THEN [s1 EXCEPT !.y = pos.y \div 2] ELSE s1
        s3   == IF pos.x < minX THEN [s2 EXCEPT !.x = minX + (pos.x - minX) \div 2] ELSE s2
        s4   == IF pos.y < minY THEN [s3 EXCEPT !.y = minY + (pos.y - minY) \div 2] ELSE s3
    IN  s4

\* limitDragBoundaries: pos is read once, then the four constraints are
\* applied one after the other to the stage.
limitDragBoundaries(st) ==
    LET pos  == StagePosition(st)
        maxX == 0
        maxY == 0
        minX == -(virtualCanvasWidth - st.width)
        minY == -(virtualCanvasHeight - st.height)
        s1   == IF pos.x > maxX THEN [st EXCEPT !.x = maxX] ELSE st
        s2   == IF pos.y > maxY THEN [s1 EXCEPT !.y = maxY] ELSE s1
        s3   == IF pos.x < minX THEN [s2 EXCEPT !.x = minX] ELSE s2
        s4   == IF pos.y < minY THEN [s3 EXCEPT !.y = minY] ELSE s3
    IN  s4

\* updateCanvasSize, the part that touches the stage
updateStageSize(st, rect) ==
    IF ~st.defined THEN st
    ELSE LET sized == [st EXCEPT !.width = rect.width, !.height = rect.height]
         IN  IF sized.x = 0 /\ sized.y = 0
             THEN LET offsetX == (virtualCanvasWidth - rect.width) \div 2
                      offsetY == (virtualCanvasHeight - rect.height) \div 2
                  IN  [sized EXCEPT !.x = -offsetX, !.y = -offsetY]
             ELSE sized

-----------------------------------------------------------------------------
(* Construction *)

Ev(name) == [name |-> name, arg |-> Point(0, 0)]

\* the proxy's slots, one per request it receives
Slots     == 1..MaxRequests
NoRequest == [pc |-> "free"]

\* nothing generated, the indicator hidden ('none', line 726), no timer,
\* no request
InitExt ==
    /\ generatedImages = <<>>
    /\ loadingIndicator = FALSE
    /\ runs = <<>>
    /\ toolResets = 0
    /\ requests = [s \in Slots |-> NoRequest]
PointerEv(name, p) == [name |-> name, arg |-> p]

Init ==
    /\ phase = "new"
    /\ containerSize \in GestureSizes
    /\ canvasSize = [width |-> 300, height |-> 150]
    /\ stage = NoStage
    /\ isNavigationMode = FALSE
    /\ currentTool = "pencil"
    /\ isDrawing = FALSE
    /\ startPoint = Point(0, 0)
    /\ activeShape = NoShape
    /\ drawingPoints = <<>>
    /\ nodes = [i \in NodeIds |-> NoNode]
    /\ layer = <<>>
    /\ transformerNodes = <<>>
    /\ placedImages = <<>>
    /\ imageCache = {}
    /\ loading = <<>>
    /\ selectedImageId = NoId
    /\ dragOffset = [x |-> [n |-> 0, d |-> 1], y |-> [n |-> 0, d |-> 1]]
    /\ currentDragImage = NoDrag
    /\ now = 0
    /\ alerts = 0
    /\ event = Ev("new")
    /\ InitExt

\* constructor, line 129: initializeCanvas runs updateCanvasSize once
initializeCanvas ==
    /\ phase = "new"
    /\ phase' = "canvas"
    /\ canvasSize' = containerSize
    /\ stage' = updateStageSize(stage, containerSize)
    /\ event' = Ev("initializeCanvas")
    /\ UNCHANGED extVars
    /\ UNCHANGED <<containerSize, canvasVars, placeVars>>

\* constructor, lines 130-144: initializeKonva, then the listeners are attached
initializeKonva ==
    /\ phase = "canvas"
    /\ phase' = "ready"
    /\ stage' = [defined |-> TRUE, x |-> 0, y |-> 0,
                 width |-> canvasSize.width, height |-> canvasSize.height,
                 draggable |-> FALSE]
    /\ transformerNodes' = <<>>
    /\ event' = Ev("ready")
    /\ UNCHANGED extVars
    /\ UNCHANGED <<containerSize, canvasSize, isNavigationMode, currentTool,
                   isDrawing, startPoint, activeShape, drawingPoints, nodes,
                   layer, placeVars>>

-----------------------------------------------------------------------------
(* Window resize *)

\* window 'resize' listener: updateCanvasSize with the container's new rect
Resize(sizes) ==
    /\ phase = "ready"
    /\ \E rect \in sizes :
        /\ containerSize' = rect
        /\ canvasSize' = rect
        /\ stage' = updateStageSize(stage, rect)
    /\ event' = Ev("resize")
    /\ UNCHANGED extVars
    /\ UNCHANGED <<phase, canvasVars, placeVars>>

-----------------------------------------------------------------------------
(* Tools and navigation mode *)

\* toggleNavigationMode that never switches dragging off again
toggledStage_Sticky(enabled, st) == [st EXCEPT !.draggable = @ \/ enabled]

\* toggleNavigationMode(enabled): the stage
toggledStage(enabled, st) == [st EXCEPT !.draggable = enabled]

\* toggleNavigationMode that leaves the selection alone
toggledSelection_Keep(enabled, tn) == tn

\* toggleNavigationMode(enabled): the transformer's nodes
toggledSelection(enabled, tn) == IF enabled THEN <<>> ELSE tn

\* click on a .tool-btn
ToolClick ==
    /\ phase = "ready"
    /\ \E button \in ToolButtons :
        /\ currentTool' = button
        /\ isNavigationMode' = (button = "navigation")
        /\ stage' = toggledStage(button = "navigation", stage)
        /\ transformerNodes' =
               IF button = "navigation"
               THEN toggledSelection(TRUE, transformerNodes)
               ELSE <<>>
    /\ event' = Ev("toolclick")
    /\ UNCHANGED extVars
    /\ UNCHANGED <<phase, containerSize, canvasSize, isDrawing, startPoint,
                   activeShape, drawingPoints, nodes, layer, placeVars>>

-----------------------------------------------------------------------------
(* Panning *)

\* Konva moves the dragged stage by the pointer's movement
draggedStage(st, d) == [st EXCEPT !.x = @ + d.x, !.y = @ + d.y]

\* stage 'dragmove': Konva has moved the draggable stage, the listener clamps
DragMove(deltas) ==
    /\ phase = "ready"
    /\ stage.draggable
    /\ \E d \in deltas :
        /\ stage' = limitDragBoundaries(draggedStage(stage, d))
        /\ event' = [name |-> "dragmove", arg |-> d]
        /\ UNCHANGED extVars
    /\ UNCHANGED <<phase, containerSize, canvasSize, canvasVars, placeVars>>

-----------------------------------------------------------------------------
(* Konva nodes of the shape layer *)

Abs(n) == IF n < 0 THEN -n ELSE n
Max(a, b) == IF a > b THEN a ELSE b

SeqToSet(q) == {q[i] : i \in 1..Len(q)}
Without(q, ids) == SelectSeq(q, LAMBDA i : i \notin ids)

NewNode(kind, name, pos) ==
    [kind |-> kind, name |-> name, x |-> pos.x, y |-> pos.y,
     width |-> 0, height |-> 0, radiusX |-> 0, radiusY |-> 0,
     points |-> <<>>, shared |-> FALSE, listening |-> TRUE]

\* ids that no live node uses
FreeIds == {i \in NodeIds : nodes[i].kind = "none"}
FreshId == CHOOSE i \in FreeIds : \A j \in FreeIds : i <= j

\* a node stays in the store while the layer, activeShape or the
\* transformer still refers to it
Collect(ns, ly, act, tn) ==
    [i \in NodeIds |->
        IF i \in SeqToSet(ly) \/ i = act \/ i \in SeqToSet(tn)
        THEN ns[i] ELSE NoNode]

\* nodes whose points attribute is the very array held in drawingPoints
\* follow a push to that array
PushShared(ns, pts) ==
    [i \in NodeIds |-> IF ns[i].kind # "none" /\ ns[i].shared
                       THEN [ns[i] EXCEPT !.points = pts] ELSE ns[i]]

\* this.drawingPoints is replaced by a new array: nodes keep the old one
Unshare(ns) ==
    [i \in NodeIds |-> IF ns[i].kind # "none"
                       THEN [ns[i] EXCEPT !.shared = FALSE] ELSE ns[i]]

\* extent of a point list [x1, y1, x2, y2, ...] along one axis (Konva.Line
\* getWidth/getHeight); first = 1 for x, 2 for y
Extent(pts, first) ==
    LET idx == {i \in 1..Len(pts) : i % 2 = first % 2}
    IN  IF idx = {} THEN 0
        ELSE LET hi == CHOOSE i \in idx : \A j \in idx : pts[i] >= pts[j]
                 lo == CHOOSE i \in idx : \A j \in idx : pts[i] <= pts[j]
             IN  pts[hi] - pts[lo]

\* node.width() / node.height(): Ellipse reports its diameters, Line the
\* extent of its points, the others the attribute
NodeWidth(n) ==
    CASE n.kind = "Ellipse" -> 2 * n.radiusX
      [] n.kind = "Line"    -> Extent(n.points, 1)
      [] OTHER              -> n.width
NodeHeight(n) ==
    CASE n.kind = "Ellipse" -> 2 * n.radiusY
      [] n.kind = "Line"    -> Extent(n.points, 2)
      [] OTHER              -> n.height

\* node.width(w) / node.height(h): Ellipse stores half of it as the radius
SetSize(n, w, h) ==
    IF n.kind = "Ellipse"
    THEN [n EXCEPT !.radiusX = w \div 2, !.radiusY = h \div 2]
    ELSE [n EXCEPT !.width = w, !.height = h]

HasRadius(n) == n.kind = "Ellipse"      \* radiusX / radiusY are methods
HasPoints(n) == n.kind = "Line"         \* points is a method

\* the nodes a pointer event can have as its target: children of the
\* layer that listen and carry the name 'shape' or 'text'
Selectable == {i \in SeqToSet(layer) :
                  nodes[i].listening /\ nodes[i].name \in {"shape", "text"}}

-----------------------------------------------------------------------------
(* Drawing gestures *)

Stage       == 0        \* e.target === this.stage
OtherTarget == -1       \* a transformer anchor: neither 'shape' nor 'text'

\* startDrawing(e), pos = this.stage.getPointerPosition()
startDrawing(pos) ==
    /\ transformerNodes' = <<>>
    /\ IF currentTool = "text"
       THEN /\ nodes' = Collect(nodes, layer, activeShape, <<>>)
            /\ UNCHANGED <<isDrawing, startPoint, activeShape, drawingPoints, layer>>
       ELSE /\ isDrawing' = TRUE
            /\ startPoint' = pos
            /\ IF currentTool \in {"circle", "rectangle", "square"}
               THEN /\ FreeIds # {}
                    /\ LET id   == FreshId
                           node == IF currentTool = "circle"
                                   THEN NewNode("Ellipse", "shape", pos)
                                   ELSE NewNode("Rect", "shape", pos)
                       IN  /\ activeShape' = id
                           /\ layer' = Append(layer, id)
                           /\ nodes' = Collect([nodes EXCEPT ![id] = node],
                                               layer', id, <<>>)
                    /\ UNCHANGED drawingPoints
               ELSE IF currentTool = "pencil"
               THEN /\ FreeIds # {}
                    /\ drawingPoints' = <<pos.x, pos.y, pos.x, pos.y>>
                    /\ LET id   == FreshId
                           node == [NewNode("Line", "shape", Point(0, 0))
                                       EXCEPT !.points = drawingPoints',
                                              !.shared = TRUE,
                                              !.listening = FALSE]
                       IN  /\ activeShape' = id
                           /\ layer' = Append(layer, id)
                           /\ nodes' = Collect([Unshare(nodes) EXCEPT ![id] = node],
                                               layer', id, <<>>)
               ELSE IF currentTool = "eraser"
               THEN /\ FreeIds # {}
                    /\ LET id   == FreshId
                           node == [NewNode("Line", "eraser", Point(0, 0))
                                       EXCEPT !.points = <<pos.x, pos.y>>]
                       IN  /\ activeShape' = id
                           /\ layer' = Append(layer, id)
                           /\ nodes' = Collect([nodes EXCEPT ![id] = node],
                                               layer', id, <<>>)
                    /\ UNCHANGED drawingPoints
               ELSE /\ nodes' = Collect(nodes, layer, activeShape, <<>>)
                    /\ UNCHANGED <<activeShape, drawingPoints, layer>>

\* draw(e); a method the active node does not have throws a TypeError and
\* ends the handler where it stands
draw(pos) ==
    IF ~isDrawing \/ activeShape = NoShape
    THEN UNCHANGED drawVars
    ELSE LET n  == nodes[activeShape]
             dx == pos.x - startPoint.x
             dy == pos.y - startPoint.y
             at == [n EXCEPT !.x = startPoint.x, !.y = startPoint.y]
         IN
         /\ UNCHANGED <<isDrawing, startPoint, activeShape, layer,
                        transformerNodes>>
         /\ IF currentTool = "pencil"
            THEN /\ Len(drawingPoints) + 2 <= MaxPointCoords
                 /\ drawingPoints' = drawingPoints \o <<pos.x, pos.y>>
                 /\ LET pushed == PushShared(nodes, drawingPoints')
                    IN  nodes' = IF HasPoints(n)
                                 THEN [pushed EXCEPT ![activeShape].points = drawingPoints',
                                                     ![activeShape].shared = TRUE]
                                 ELSE pushed
            ELSE IF currentTool = "circle"
            THEN /\ nodes' = [nodes EXCEPT ![activeShape] =
                                 IF HasRadius(n)
                                 THEN [at EXCEPT !.radiusX = Abs(dx), !.radiusY = Abs(dy)]
                                 ELSE at]
                 /\ UNCHANGED drawingPoints
            ELSE IF currentTool = "rectangle"
            THEN /\ nodes' = [nodes EXCEPT ![activeShape] =
                                 SetSize([n EXCEPT !.x = IF dx < 0 THEN pos.x ELSE startPoint.x,
                                                   !.y = IF dy < 0 THEN pos.y ELSE startPoint.y],
                                         Abs(dx), Abs(dy))]
                 /\ UNCHANGED drawingPoints
            ELSE IF currentTool = "square"
            THEN /\ LET size == Max(Abs(dx), Abs(dy))
                    IN nodes' = [nodes EXCEPT ![activeShape] =
                                 SetSize([n EXCEPT !.x = IF dx < 0 THEN startPoint.x - size
                                                                   ELSE startPoint.x,
                                                   !.y = IF dy < 0 THEN startPoint.y - size
                                                                   ELSE startPoint.y],
                                         size, size)]
                 /\ UNCHANGED drawingPoints
            ELSE UNCHANGED <<nodes, drawingPoints>>

\* stopDrawing(e)
stopDrawing ==
    IF ~isDrawing
    THEN UNCHANGED drawVars
    ELSE
    /\ isDrawing' = FALSE
    /\ UNCHANGED startPoint
    /\ IF activeShape = NoShape
       THEN UNCHANGED <<activeShape, drawingPoints, nodes, layer, transformerNodes>>
       ELSE LET n         == nodes[activeShape]
                destroyed == Without(layer, {activeShape})
                selected  == <<activeShape>>
            IN
            IF currentTool = "circle" /\ ~HasRadius(n)
            THEN \* radiusX is not a function: the handler ends here
                 UNCHANGED <<activeShape, drawingPoints, nodes, layer, transformerNodes>>
            ELSE IF \/ (currentTool = "circle" /\ n.radiusX = 0 /\ n.radiusY = 0)
                    \/ (currentTool \in {"rectangle", "square"}
                          /\ (NodeWidth(n) = 0 \/ NodeHeight(n) = 0))
            THEN /\ layer' = destroyed
                 /\ activeShape' = NoShape
                 /\ nodes' = Collect(nodes, layer', NoShape, transformerNodes)
                 /\ UNCHANGED <<drawingPoints, transformerNodes>>
            ELSE IF currentTool = "pencil"
            THEN /\ drawingPoints' = <<>>
                 /\ UNCHANGED layer
                 /\ LET ns == [Unshare(nodes) EXCEPT ![activeShape].listening = TRUE]
                    IN  IF ~HasPoints(n)
                        THEN \* points is not a function: the handler ends here
                             /\ nodes' = ns
                             /\ UNCHANGED <<activeShape, transformerNodes>>
                        ELSE /\ transformerNodes' = IF Len(n.points) > 4
                                                    THEN selected ELSE transformerNodes
                             /\ activeShape' = NoShape
                             /\ nodes' = Collect(ns, layer, NoShape, transformerNodes')
            ELSE /\ transformerNodes' = IF currentTool # "eraser"
                                        THEN selected ELSE transformerNodes
                 /\ activeShape' = NoShape
                 /\ nodes' = Collect(nodes, layer, NoShape, transformerNodes')
                 /\ UNCHANGED <<drawingPoints, layer>>

\* stage 'mousedown touchstart'
MouseDown ==
    /\ phase = "ready"
    /\ \E p \in PointerPoints, target \in {Stage, OtherTarget} \cup Selectable,
          topShape \in {NoShape} \cup Selectable :
        /\ event' = PointerEv("mousedown", p)
        /\ UNCHANGED extVars
        /\ target = OtherTarget => transformerNodes # <<>>
        /\ IF isNavigationMode
           THEN UNCHANGED drawVars
           ELSE IF target # Stage
           THEN IF target \in Selectable
                THEN /\ transformerNodes' =
                            <<IF topShape # NoShape THEN topShape ELSE target>>
                     /\ UNCHANGED <<isDrawing, startPoint, activeShape, drawingPoints,
                                    nodes, layer>>
                ELSE UNCHANGED drawVars
           ELSE startDrawing(p)
    /\ UNCHANGED <<viewVars, isNavigationMode, currentTool, placeVars>>

\* stage 'mousemove touchmove'
MouseMove ==
    /\ phase = "ready"
    /\ \E p \in PointerPoints :
        /\ event' = PointerEv("mousemove", p)
        /\ UNCHANGED extVars
        /\ IF ~isNavigationMode THEN draw(p) ELSE UNCHANGED drawVars
    /\ UNCHANGED <<viewVars, isNavigationMode, currentTool, placeVars>>

\* stage 'mouseup touchend'
MouseUp ==
    /\ phase = "ready"
    /\ \E p \in PointerPoints :
        /\ event' = PointerEv("mouseup", p)
        /\ UNCHANGED extVars
        /\ IF ~isNavigationMode THEN stopDrawing ELSE UNCHANGED drawVars
    /\ UNCHANGED <<viewVars, isNavigationMode, currentTool, placeVars>>

-----------------------------------------------------------------------------
(* Text *)

\* createText(e): a text node at the pointer, selected, and a 50 ms timer
\* that fires its 'dblclick'
createText(pos) ==
    /\ FreeIds # {}
    /\ LET id == FreshId
       IN  /\ layer' = Append(layer, id)
           /\ transformerNodes' = <<id>>
           /\ nodes' = Collect([nodes EXCEPT ![id] = NewNode("Text", "text", pos)],
                               layer', activeShape, transformerNodes')
    /\ UNCHANGED <<isDrawing, startPoint, activeShape, drawingPoints>>

\* stage 'dblclick', and the 'dblclick' listener of a text node, which
\* opens a <textarea> over the node
DblClick ==
    /\ phase = "ready"
    /\ \E p \in PointerPoints, target \in {Stage} \cup Selectable :
        /\ event' = PointerEv("dblclick", p)
        /\ UNCHANGED extVars
        /\ IF target = Stage
           THEN IF currentTool = "text" /\ ~isNavigationMode
                THEN createText(p)
                ELSE UNCHANGED drawVars
           ELSE IF nodes[target].kind = "Text"
                THEN UNCHANGED drawVars   \* the node's own listener opens a textarea
                ELSE UNCHANGED drawVars
    /\ UNCHANGED <<viewVars, isNavigationMode, currentTool, placeVars>>

-----------------------------------------------------------------------------
(* Clear *)

\* clearCanvas(): click on #clear
clearCanvas ==
    /\ phase = "ready"
    /\ layer' = <<>>
    /\ transformerNodes' = <<>>
    /\ nodes' = Collect(nodes, <<>>, activeShape, <<>>)
    /\ event' = Ev("clear")
    /\ UNCHANGED extVars
    /\ UNCHANGED <<viewVars, isNavigationMode, currentTool,
                   isDrawing, startPoint, activeShape, drawingPoints, placeVars>>

Next ==
    \/ initializeCanvas
    \/ initializeKonva
    \/ Resize(GestureSizes)
    \/ ToolClick
    \/ DragMove(GestureDeltas)
    \/ MouseDown
    \/ MouseMove
    \/ MouseUp
    \/ DblClick
    \/ clearCanvas

Spec == Init /\ [][Next]_vars

-----------------------------------------------------------------------------
(* Numbers that are quotients: exact fractions n/d in lowest terms, d > 0 *)

RECURSIVE Gcd(_, _)
Gcd(a, b) == IF b = 0 THEN a ELSE Gcd(b, a % b)

Frac(n, d) ==
    LET g == Gcd(Abs(n), Abs(d))
        s == IF d < 0 THEN -1 ELSE 1
    IN  [n |-> (s * n) \div g, d |-> (s * d) \div g]

Num(k)     == [n |-> k, d |-> 1]
Div(a, b)  == Frac(a.n * b.d, a.d * b.n)       \* a / b
Mul(a, b)  == Frac(a.n * b.n, a.d * b.d)       \* a * b
Sub(a, b)  == Frac(a.n * b.d - b.n * a.d, a.d * b.d)   \* a - b
Add(a, b)  == Frac(a.n * b.d + b.n * a.d, a.d * b.d)   \* a + b
Gt(a, b)   == a.n * b.d > b.n * a.d            \* a > b
Ge(a, b)   == a.n * b.d >= b.n * a.d           \* a >= b
Le(a, b)   == Ge(b, a)                         \* a <= b
Larger(a, b) == IF Gt(a, b) THEN a ELSE b

-----------------------------------------------------------------------------
(* Placing images *)

\* the sources: a url stands for the image it decodes to, whose natural
\* size is fixed
NaturalEdges == {50, 100, 300, 800, 1600}
Urls == [naturalWidth : NaturalEdges, naturalHeight : NaturalEdges]
Centers == { Point(500, 500), Point(400, 300) }
RandomValues == {0, 999}        \* Math.floor(Math.random() * 1000)

\* placeImage: the size that keeps the aspect ratio
imageSize(img) ==
    LET aspectRatio == Div(Num(img.naturalWidth), Num(img.naturalHeight))
        width       == Num(maxSize)
        height      == Div(Num(maxSize), aspectRatio)
    IN  IF Gt(height, Num(maxSize))
        THEN [width |-> Mul(Num(maxSize), aspectRatio), height |-> Num(maxSize)]
        ELSE [width |-> width, height |-> height]

\* placeImage that puts the box's corner, not its centre, on the point
placedImage_Corner(imageUrl, position, img, newId) ==
    LET size == imageSize(img)
    IN  [id |-> newId, url |-> imageUrl,
         x |-> Num(position.x), y |-> Num(position.y),
         width |-> size.width, height |-> size.height, selected |-> FALSE]

\* placeImage: the PlacedImage centred on position
placedImage(imageUrl, position, img, newId) ==
    LET size == imageSize(img)
        x    == Sub(Num(position.x), Div(size.width, Num(2)))
        y    == Sub(Num(position.y), Div(size.height, Num(2)))
    IN  [id |-> newId, url |-> imageUrl, x |-> x, y |-> y,
         width |-> size.width, height |-> size.height, selected |-> FALSE]

\* the decoded HTMLImageElement of a url
Decoded(imageUrl) == imageUrl

\* `img_${Date.now()}_${Math.floor(Math.random() * 1000)}`
NewId(random) == <<now, random>>

\* an Image whose src has been set, with what its onload closure holds
Request(kind, imageUrl, position, size) ==
    [kind |-> kind, url |-> imageUrl, position |-> position, size |-> size]
NoSize == [width |-> 0, height |-> 0]

RemoveAt(q, i) == SubSeq(q, 1, i - 1) \o SubSeq(q, i + 1, Len(q))

\* the requests of loading that end in a placement
Placing(q) == SelectSeq(q, LAMBDA req : req.kind # "dragImg")

\* placeImage(): appends the new image
placeImage(imageUrl, position, random) ==
    /\ placedImages' = Append(placedImages,
           placedImage(imageUrl, position, Decoded(imageUrl), NewId(random)))
    /\ event' = [name |-> "placed", arg |-> position]
    /\ UNCHANGED extVars

\* placeImageOnCanvas(imageUrl, position); no more than maxImages images
\* are placed or on their way and no more than maxLoading decodes in flight
placeImageOnCanvas(urls, centers, maxImages, maxLoading) ==
    /\ phase = "ready"
    /\ Len(placedImages) + Len(Placing(loading)) < maxImages
    /\ \E imageUrl \in urls, position \in centers, random \in RandomValues :
        IF imageUrl \in imageCache
        THEN /\ placeImage(imageUrl, position, random)
             /\ UNCHANGED <<imageCache, loading>>
        ELSE /\ Len(loading) < maxLoading
             /\ loading' = Append(loading,
                                  Request("place", imageUrl, position, NoSize))
             /\ event' = [name |-> "placeImageOnCanvas", arg |-> position]
             /\ UNCHANGED extVars
             /\ UNCHANGED <<placedImages, imageCache>>
    /\ UNCHANGED <<viewVars, canvasVars, selectVars, now, alerts>>

-----------------------------------------------------------------------------
(* Placing images by drag and drop *)

NoStyle == [n |-> 0, d |-> 0]          \* a style property that is not set: ''

\* parseInt(style) || 300 for a style of `${number}px` with number >= 0
ParseIntOr300(style) ==
    IF style = NoStyle THEN 300
    ELSE LET k == style.n \div style.d
         IN  IF k = 0 THEN 300 ELSE k

\* startDraggableImage(imageUrl, startPoint)
startDraggableImage(urls, points, maxLoading) ==
    /\ phase = "ready"
    /\ Len(loading) < maxLoading
    /\ \E imageUrl \in urls, point \in points :
        /\ currentDragImage' = [active |-> TRUE, url |-> imageUrl,
                                styleWidth |-> Num(maxSize),
                                styleHeight |-> NoStyle]
        /\ loading' = Append(loading, Request("dragImg", imageUrl, point, NoSize))
        /\ event' = [name |-> "startDraggableImage", arg |-> point]
        /\ UNCHANGED extVars
    /\ UNCHANGED <<viewVars, canvasVars, placedImages, imageCache,
                   selectedImageId, dragOffset, now, alerts>>

\* dragImg.onload of startDraggableImage
dragImgLoaded(drag, img) ==
    IF ~drag.active THEN drag
    ELSE LET size == imageSize(img)
         IN  [drag EXCEPT !.styleWidth = size.width, !.styleHeight = size.height]

\* loadAndPlaceImage of finalizeDrag: the PlacedImage
droppedImage(req, newId) ==
    [id |-> newId, url |-> req.url,
     x |-> Sub(Num(req.position.x), Div(Num(req.size.width), Num(2))),
     y |-> Sub(Num(req.position.y), Div(Num(req.size.height), Num(2))),
     width |-> Num(req.size.width), height |-> Num(req.size.height),
     selected |-> FALSE]

\* loadAndPlaceImage of finalizeDrag
loadAndPlaceImage(req, random) ==
    /\ placedImages' = Append(placedImages, droppedImage(req, NewId(random)))
    /\ currentTool' = "pencil"
    /\ event' = [name |-> "dropped", arg |-> req.position]
    /\ UNCHANGED extVars

\* finalizeDrag(e): canvas 'mouseup', or 'mouseleave' out of the canvas
finalizeDrag(points, maxImages, maxLoading) ==
    /\ phase = "ready"
    /\ \E point \in points, random \in RandomValues :
        IF ~currentDragImage.active
        THEN /\ event' = [name |-> "finalizeDrag", arg |-> point]
             /\ UNCHANGED extVars
             /\ UNCHANGED <<placedImages, imageCache, loading, currentTool,
                            currentDragImage>>
        ELSE LET req == Request("drag", currentDragImage.url, point,
                          [width  |-> ParseIntOr300(currentDragImage.styleWidth),
                           height |-> ParseIntOr300(currentDragImage.styleHeight)])
             IN  /\ Len(placedImages) + Len(Placing(loading)) < maxImages
                 /\ IF req.url \in imageCache
                    THEN /\ loadAndPlaceImage(req, random)
                         /\ UNCHANGED <<imageCache, loading>>
                    ELSE /\ Len(loading) < maxLoading
                         /\ loading' = Append(loading, req)
                         /\ event' = [name |-> "finalizeDrag", arg |-> point]
                         /\ UNCHANGED extVars
                         /\ UNCHANGED <<placedImages, imageCache, currentTool>>
                 /\ currentDragImage' = NoDrag
    /\ UNCHANGED <<viewVars, isNavigationMode, drawVars, selectedImageId,
                   dragOffset, now, alerts>>

-----------------------------------------------------------------------------
(* Image decodes that complete *)

\* img.onload of placeImageOnCanvas and of finalizeDrag, dragImg.onload
ImgOnload ==
    /\ \E i \in 1..Len(loading), random \in RandomValues :
        LET req == loading[i]
        IN  /\ loading' = RemoveAt(loading, i)
            /\ CASE req.kind = "place" ->
                      /\ imageCache' = imageCache \cup {req.url}
                      /\ placeImage(req.url, req.position, random)
                      /\ UNCHANGED <<currentTool, currentDragImage>>
                 [] req.kind = "drag" ->
                      /\ imageCache' = imageCache \cup {req.url}
                      /\ loadAndPlaceImage(req, random)
                      /\ UNCHANGED currentDragImage
                 [] req.kind = "dragImg" ->
                      /\ currentDragImage' =
                             dragImgLoaded(currentDragImage, Decoded(req.url))
                      /\ event' = [name |-> "dragImgLoaded", arg |-> req.position]
                      /\ UNCHANGED extVars
                      /\ UNCHANGED <<placedImages, imageCache, currentTool>>
    /\ UNCHANGED <<viewVars, isNavigationMode, drawVars, selectedImageId,
                   dragOffset, now, alerts>>

\* img.onerror that has stored the image in the cache before it loaded
ImgOnerror_Cached ==
    /\ \E i \in 1..Len(loading) :
        /\ loading' = RemoveAt(loading, i)
        /\ event' = [name |-> "onerror", arg |-> loading[i].position]
        /\ UNCHANGED extVars
        /\ imageCache' = imageCache \cup {loading[i].url}
        /\ IF loading[i].kind = "dragImg"
           THEN UNCHANGED alerts
           ELSE /\ alerts < MaxAlerts
                /\ alerts' = alerts + 1
    /\ UNCHANGED <<viewVars, canvasVars, placedImages, selectVars, now>>

\* img.onerror of placeImageOnCanvas and of finalizeDrag: an alert; the
\* drag image has no onerror handler
ImgOnerror ==
    /\ \E i \in 1..Len(loading) :
        /\ loading' = RemoveAt(loading, i)
        /\ event' = [name |-> "onerror", arg |-> loading[i].position]
        /\ UNCHANGED extVars
        /\ IF loading[i].kind = "dragImg"
           THEN UNCHANGED alerts
           ELSE /\ alerts < MaxAlerts
                /\ alerts' = alerts + 1
    /\ UNCHANGED <<viewVars, canvasVars, placedImages, imageCache, selectVars, now>>

\* the clock moves on between events
Tick ==
    /\ now < MaxClock
    /\ now' = now + 1
    /\ event' = Ev("tick")
    /\ UNCHANGED extVars
    /\ UNCHANGED <<viewVars, canvasVars, placedImages, imageCache, loading,
                   selectVars, alerts>>

-----------------------------------------------------------------------------
(* The placed images: selecting and deleting *)

\* the test of selectImageAt with the edges of the box left out
Contains_Strict(img, x, y) ==
    /\ Gt(Num(x), img.x)
    /\ Gt(Add(img.x, img.width), Num(x))
    /\ Gt(Num(y), img.y)
    /\ Gt(Add(img.y, img.height), Num(y))

\* the test of selectImageAt: the point is inside the box, edges included
Contains(img, x, y) ==
    /\ Ge(Num(x), img.x)
    /\ Le(Num(x), Add(img.x, img.width))
    /\ Ge(Num(y), img.y)
    /\ Le(Num(y), Add(img.y, img.height))

\* the index at which the loop of selectImageAt stops (it runs from the
\* last image down), 0 when it runs to the end
HitIndex(images, x, y) ==
    LET hits == {i \in 1..Len(images) : Contains(images[i], x, y)}
    IN  IF hits = {} THEN 0 ELSE CHOOSE i \in hits : \A j \in hits : j <= i

\* a forEach that flips the flag
Deselected_Toggle(images) ==
    [i \in 1..Len(images) |-> [images[i] EXCEPT !.selected = ~@]]

\* a forEach that misses the last image
Deselected_ButLast(images) ==
    [i \in 1..Len(images) |->
        IF i < Len(images) THEN [images[i] EXCEPT !.selected = FALSE] ELSE images[i]]

\* placedImages.forEach(image => image.selected = false)
Deselected(images) == [i \in 1..Len(images) |-> [images[i] EXCEPT !.selected = FALSE]]

\* selectImageAt that leaves the hit image where it is in the order
selectedImages_InPlace(images, i) ==
    [j \in 1..Len(images) |-> [images[j] EXCEPT !.selected = (j = i)]]

\* selectImageAt: placedImages after image i was hit
selectedImages(images, i) ==
    LET img == [images[i] EXCEPT !.selected = TRUE]
    IN  Append(SelectSeq(Deselected(images), LAMBDA image : image.id # img.id), img)

\* selectImageAt(x, y); it returns whether an image was hit
selectImageAt(points) ==
    /\ phase = "ready"
    /\ \E p \in points :
        LET i == HitIndex(placedImages, p.x, p.y)
        IN  IF i = 0
            THEN /\ event' = [name |-> "selectImageAt:false", arg |-> p]
                 /\ UNCHANGED extVars
                 /\ UNCHANGED <<placedImages, selectedImageId, dragOffset, currentTool>>
            ELSE /\ placedImages' = selectedImages(placedImages, i)
                 /\ selectedImageId' = placedImages[i].id
                 /\ dragOffset' = [x |-> Sub(Num(p.x), placedImages[i].x),
                                   y |-> Sub(Num(p.y), placedImages[i].y)]
                 /\ currentTool' = "select"
                 /\ event' = [name |-> "selectImageAt:true", arg |-> p]
                 /\ UNCHANGED extVars
    /\ UNCHANGED <<viewVars, isNavigationMode, drawVars, imageCache, loading,
                   currentDragImage, now, alerts>>

\* deselectAllImages()
deselectAllImages ==
    /\ phase = "ready"
    /\ placedImages' = Deselected(placedImages)
    /\ selectedImageId' = NoId
    /\ event' = Ev("deselectAllImages")
    /\ UNCHANGED extVars
    /\ UNCHANGED <<viewVars, canvasVars, imageCache, loading, dragOffset,
                   currentDragImage, now, alerts>>

\* deleteSelectedImage: placedImages without the images of the selected id
deletedImages(images, id) ==
    SelectSeq(images, LAMBDA img : img.id # id)

\* deleteSelectedImage(): click on #delete-image-btn
deleteSelectedImage ==
    /\ phase = "ready"
    /\ IF selectedImageId # NoId
       THEN /\ placedImages' = deletedImages(placedImages, selectedImageId)
            /\ selectedImageId' = NoId
       ELSE UNCHANGED <<placedImages, selectedImageId>>
    /\ event' = Ev("deleteSelectedImage")
    /\ UNCHANGED extVars
    /\ UNCHANGED <<viewVars, canvasVars, imageCache, loading, dragOffset,
                   currentDragImage, now, alerts>>

-----------------------------------------------------------------------------
(* Keyboard *)

Keys == {"Delete", "Backspace", "Enter"}

\* handleKeyDown(e) while no <textarea> is open: Delete and Backspace
\* destroy the transformer's nodes
handleKeyDown ==
    /\ phase = "ready"
    /\ \E key \in Keys :
        /\ event' = Ev("keydown:" \o key)
        /\ UNCHANGED extVars
        /\ IF key \in {"Delete", "Backspace"} /\ transformerNodes # <<>>
           THEN /\ layer' = Without(layer, SeqToSet(transformerNodes))
                /\ transformerNodes' = <<>>
                /\ nodes' = Collect(nodes, layer', activeShape, <<>>)
           ELSE UNCHANGED <<layer, transformerNodes, nodes>>
    /\ UNCHANGED <<viewVars, isNavigationMode, currentTool, isDrawing,
                   startPoint, activeShape, drawingPoints, placeVars>>

\* the list of placed images on its own, on a constructed application
InitPlace ==
    /\ phase = "ready"
    /\ containerSize = [width |-> 800, height |-> 600]
    /\ canvasSize = containerSize
    /\ stage = [defined |-> TRUE, x |-> 0, y |-> 0, width |-> 800,
                height |-> 600, draggable |-> FALSE]
    /\ isNavigationMode = FALSE
    /\ currentTool = "pencil"
    /\ isDrawing = FALSE
    /\ startPoint = Point(0, 0)
    /\ activeShape = NoShape
    /\ drawingPoints = <<>>
    /\ nodes = [i \in NodeIds |-> NoNode]
    /\ layer = <<>>
    /\ transformerNodes = <<>>
    /\ placedImages = <<>>
    /\ imageCache = {}
    /\ loading = <<>>
    /\ selectedImageId = NoId
    /\ dragOffset = [x |-> [n |-> 0, d |-> 1], y |-> [n |-> 0, d |-> 1]]
    /\ currentDragImage = NoDrag
    /\ now = 0
    /\ alerts = 0
    /\ event = Ev("ready")
    /\ InitExt

NextPlace ==
    \/ placeImageOnCanvas(Urls, Centers, MaxImages, MaxLoading)
    \/ ImgOnload
    \/ ImgOnerror
    \/ Tick

SpecPlace == InitPlace /\ [][NextPlace]_vars

-----------------------------------------------------------------------------
(* The placed images as a registry: every method of DrawingApp that reads  *)
(* or writes placedImages, called in any order on a constructed            *)
(* application.  Two sources that are placed as a 300x150 and a 150x300    *)
(* box, crossing each other when they share their centre; a dropped image  *)
(* whose drag image has not loaded is a 300x300 box that covers both.      *)

RegUrls    == { [naturalWidth |-> 1600, naturalHeight |-> 800],
                [naturalWidth |-> 800,  naturalHeight |-> 1600] }
RegCenters == { Point(400, 300) }
\* the shared centre, a corner of the 300x150 box, the upper edge of the
\* 150x300 box, and a point one unit to the left of every box
HitPoints  == { Point(400, 300), Point(250, 225), Point(400, 150),
                Point(249, 300) }

NextRegistry ==
    \/ placeImageOnCanvas(RegUrls, RegCenters, MaxPlaced, MaxDecodes)
    \/ ImgOnload
    \/ Tick
    \/ selectImageAt(HitPoints)
    \/ deselectAllImages
    \/ deleteSelectedImage
    \/ handleKeyDown

SpecRegistry == InitPlace /\ [][NextRegistry]_vars

\* the two ways of placing an image side by side, with decodes that fail
NextDrop ==
    \/ placeImageOnCanvas(RegUrls, RegCenters, MaxPlaced, MaxDecodes)
    \/ startDraggableImage(RegUrls, RegCenters, MaxDecodes)
    \/ finalizeDrag(RegCenters, MaxPlaced, MaxDecodes)
    \/ ImgOnload
    \/ ImgOnerror
    \/ Tick

SpecDrop == InitPlace /\ [][NextDrop]_vars

-----------------------------------------------------------------------------
(* Pointer gestures over a placed image: the thumbnail's image placed at   *)
(* the centre of the 800x600 canvas, the tools, and the stage's pointer    *)
(* handlers.  The stage stays at (0,0).  Of PointerPoints, (400,300) lies  *)
(* inside the image's box and (100,100) outside.                           *)

PointerUrls    == { [naturalWidth |-> 1600, naturalHeight |-> 800] }
PointerCenters == { Point(400, 300) }

NextPointer ==
    \/ placeImageOnCanvas(PointerUrls, PointerCenters, MaxImages, MaxLoading)
    \/ ImgOnload
    \/ ToolClick
    \/ MouseDown
    \/ MouseMove
    \/ MouseUp
    \/ handleKeyDown

SpecPointer == InitPlace /\ [][NextPointer]_vars

-----------------------------------------------------------------------------
(* The viewport alone: construction, navigation tool, panning and resizing, *)
(* over the larger choice of container sizes and drag movements.  No other  *)
(* handler reads or writes the stage.                                       *)

InitView ==
    /\ phase = "new"
    /\ containerSize \in ContainerSizes
    /\ canvasSize = [width |-> 300, height |-> 150]
    /\ stage = NoStage
    /\ isNavigationMode = FALSE
    /\ currentTool = "pencil"
    /\ isDrawing = FALSE
    /\ startPoint = Point(0, 0)
    /\ activeShape = NoShape
    /\ drawingPoints = <<>>
    /\ nodes = [i \in NodeIds |-> NoNode]
    /\ layer = <<>>
    /\ transformerNodes = <<>>
    /\ placedImages = <<>>
    /\ imageCache = {}
    /\ loading = <<>>
    /\ selectedImageId = NoId
    /\ dragOffset = [x |-> [n |-> 0, d |-> 1], y |-> [n |-> 0, d |-> 1]]
    /\ currentDragImage = NoDrag
    /\ now = 0
    /\ alerts = 0
    /\ event = Ev("new")
    /\ InitExt

NextView ==
    \/ initializeCanvas
    \/ initializeKonva
    \/ Resize(ContainerSizes)
    \/ ToolClick
    \/ DragMove(PanDeltas)

SpecView == InitView /\ [][NextView]_vars

\* the same, with every container no larger than the virtual canvas
FitSizes == {size \in ContainerSizes : size.width <= virtualCanvasWidth
                                        /\ size.height <= virtualCanvasHeight}

InitFit == InitView /\ containerSize \in FitSizes

NextFit ==
    \/ initializeCanvas
    \/ initializeKonva
    \/ Resize(FitSizes)
    \/ ToolClick
    \/ DragMove(PanDeltas)

SpecFit == InitFit /\ [][NextFit]_vars

-----------------------------------------------------------------------------
(* Generated images and their thumbnails.  displayThumbnails renders one   *)
(* thumbnail per element of generatedImages whenever the list is set, and  *)
(* the list is emptied together with the thumbnails, so the thumbnails on  *)
(* the page are those of generatedImages.  selectedImageIndex is written   *)
(* but never read and is left out.                                         *)

\* createAdvancedMockImage(512, 512, ...): the data URL of a 512x512 canvas;
\* src tells who made the picture, in which run, and which of the three it
\* is.  Mock images made for different prompts are not told apart.
createAdvancedMockImage(run, imageNumber) ==
    [naturalWidth |-> 512, naturalHeight |-> 512,
     src |-> [by |-> "mock", run |-> run, n |-> imageNumber]]

\* `data:image/png;base64,${image}` of variation n of a run; the API
\* answers with a 1024x1024 picture
ApiUrl(run, n) ==
    [naturalWidth |-> 1024, naturalHeight |-> 1024,
     src |-> [by |-> "api", run |-> run, n |-> n]]

GeneratedImage(n, imageUrl) ==
    [id |-> ToString(n), url |-> imageUrl, width |-> 512, height |-> 512]

\* generateMockImages: three mock images
mockImages(run) ==
    [n \in 1..3 |-> GeneratedImage(n, createAdvancedMockImage(run, n))]

\* 'keydown' Enter on #image-prompt with a prompt that is not blank
PromptEnter ==
    /\ phase = "ready"
    /\ generatedImages' = mockImages(0)
    /\ event' = Ev("prompt:Enter")
    /\ UNCHANGED <<viewVars, canvasVars, placeVars, loadingIndicator, runs,
                   toolResets, requests>>

\* 'dblclick' on a thumbnail: selectImage(index), placeImageOnCanvas at the
\* centre of the canvas element, and a timer of 100 ms.  No more than
\* maxImages images are placed or on their way.
ThumbnailDblClick(maxImages, maxLoading) ==
    /\ phase = "ready"
    /\ toolResets < MaxTimers
    /\ Len(placedImages) + Len(Placing(loading)) < maxImages
    /\ \E index \in 1..Len(generatedImages), random \in RandomValues :
        LET canvasCenter == Point(canvasSize.width \div 2, canvasSize.height \div 2)
            imageUrl     == generatedImages[index].url
        IN  /\ currentTool' = "image"
            /\ IF imageUrl \in imageCache
               THEN /\ placedImages' = Append(placedImages,
                           placedImage(imageUrl, canvasCenter, Decoded(imageUrl),
                                       NewId(random)))
                    /\ UNCHANGED <<imageCache, loading>>
               ELSE /\ Len(loading) < maxLoading
                    /\ loading' = Append(loading,
                           Request("place", imageUrl, canvasCenter, NoSize))
                    /\ UNCHANGED <<placedImages, imageCache>>
            /\ toolResets' = toolResets + 1
            /\ event' = [name |-> "thumbnail:dblclick", arg |-> canvasCenter]
    /\ UNCHANGED <<viewVars, isNavigationMode, drawVars, selectVars, now,
                   alerts, genVars, requests>>

\* the timer of a thumbnail's dblclick fires
ToolReset ==
    /\ toolResets > 0
    /\ toolResets' = toolResets - 1
    /\ currentTool' = "pencil"
    /\ event' = Ev("toolreset")
    /\ UNCHANGED <<viewVars, isNavigationMode, drawVars, placeVars, genVars,
                   requests>>

NextThumb ==
    \/ PromptEnter
    \/ ThumbnailDblClick(MaxImages, MaxLoading)
    \/ ToolReset
    \/ ImgOnload
    \/ ToolClick

SpecThumb == InitPlace /\ [][NextThumb]_vars

\* the thumbnails and their timers next to the drawing gestures; the image
\* of a double-clicked thumbnail stays in its decode
NextGesture ==
    \/ PromptEnter
    \/ ThumbnailDblClick(MaxImages, MaxLoading)
    \/ ToolReset
    \/ ToolClick
    \/ MouseDown
    \/ MouseMove
    \/ MouseUp

SpecGesture == InitPlace /\ [][NextGesture]_vars

-----------------------------------------------------------------------------
(* Generation runs: reimagineImage (the Reimagine button, enabled once a   *)
(* file is chosen) and generateImages (no caller in app.ts; started here   *)
(* as a method).  A run is suspended at each await; what it awaits is the  *)
(* resize of the chosen file or the answer to one of its three fetches.    *)

\* what a fetch to the proxy comes to, as the run sees it:
\*   image  - 200 {success: true, image} with an image that is not ''
\*   empty  - 200 without success or with an image that is ''
\*   error  - a status that is not ok, with a JSON body {error, details}
\*   throws - fetch rejects, or the body is not JSON
CallOutcomes == {"image", "empty", "error", "throws"}

Run(kind, pc, call) ==
    [kind |-> kind, pc |-> pc, call |-> call, images |-> <<>>, outcomes |-> <<>>]

\* the run r is over: its position and the outcome of its last fetch
Ended(r, outcome) ==
    [runs EXCEPT ![r].pc = "done", ![r].outcomes = Append(@, outcome)]

\* the run r goes on to its next fetch with the images it has
Awaiting(r, outcome, images) ==
    [runs EXCEPT ![r].call = @ + 1, ![r].images = images,
                 ![r].outcomes = Append(@, outcome)]

\* click on the Reimagine button with a file selected: reimagineImage runs
\* up to its first await
reimagineImage ==
    /\ phase = "ready"
    /\ Len(runs) < MaxRuns
    /\ loadingIndicator' = TRUE
    /\ generatedImages' = <<>>
    /\ runs' = Append(runs, Run("reimagine", "resize", 0))
    /\ event' = Ev("reimagineImage")
    /\ UNCHANGED <<viewVars, canvasVars, placeVars, toolResets, requests>>

\* resizeImageFile resolves: the first fetch is sent
Resized ==
    /\ \E r \in 1..Len(runs) :
        /\ runs[r].pc = "resize"
        /\ runs' = [runs EXCEPT ![r].pc = "fetch", ![r].call = 1]
    /\ event' = Ev("resized")
    /\ UNCHANGED <<viewVars, canvasVars, placeVars, generatedImages,
                   loadingIndicator, toolResets, requests>>

\* resizeImageFile rejects: the outer catch and the finally
ResizeFailed ==
    /\ \E r \in 1..Len(runs) :
        /\ runs[r].pc = "resize"
        /\ runs' = [runs EXCEPT ![r].pc = "done"]
    /\ alerts' = alerts + 1
    /\ loadingIndicator' = FALSE
    /\ event' = Ev("resizeFailed")
    /\ UNCHANGED <<viewVars, canvasVars, placedImages, imageCache, loading,
                   selectVars, now, generatedImages, toolResets, requests>>

\* reimagineImage resumes with the answer to its fetch
ReimagineResponse ==
    /\ \E r \in 1..Len(runs), outcome \in CallOutcomes :
        LET run    == runs[r]
            pushed == Append(run.images,
                             GeneratedImage(run.call, ApiUrl(r, run.call)))
            images == IF outcome = "image" THEN pushed ELSE run.images
        IN  /\ run.kind = "reimagine"
            /\ run.pc = "fetch"
            /\ IF outcome = "throws" \/ (run.call = 1 /\ outcome # "image")
               THEN \* catch (apiError): alert, generateMockImages; finally
                    /\ alerts' = alerts + 1
                    /\ generatedImages' = mockImages(r)
                    /\ loadingIndicator' = FALSE
                    /\ runs' = Ended(r, outcome)
               ELSE IF run.call < 3
               THEN /\ runs' = Awaiting(r, outcome, images)
                    /\ UNCHANGED <<alerts, generatedImages, loadingIndicator>>
               ELSE /\ generatedImages' = images
                    /\ loadingIndicator' = FALSE
                    /\ runs' = [Ended(r, outcome) EXCEPT ![r].images = images]
                    /\ UNCHANGED alerts
    /\ event' = Ev("reimagineResponse")
    /\ UNCHANGED <<viewVars, canvasVars, placedImages, imageCache, loading,
                   selectVars, now, toolResets, requests>>

\* generateImages(prompt) runs up to its first await
generateImages ==
    /\ phase = "ready"
    /\ Len(runs) < MaxRuns
    /\ loadingIndicator' = TRUE
    /\ generatedImages' = <<>>
    /\ runs' = Append(runs, Run("generate", "fetch", 1))
    /\ event' = Ev("generateImages")
    /\ UNCHANGED <<viewVars, canvasVars, placeVars, toolResets, requests>>

\* generateImages resumes with the answer to its fetch
GenerateResponse ==
    /\ \E r \in 1..Len(runs), outcome \in CallOutcomes :
        LET run    == runs[r]
            pushed == Append(run.images,
                             GeneratedImage(run.call, ApiUrl(r, run.call)))
            images == IF outcome = "image" THEN pushed ELSE run.images
        IN  /\ run.kind = "generate"
            /\ run.pc = "fetch"
            /\ IF run.call = 1 /\ outcome # "image"
               THEN \* catch (apiError): alert, generateMockImages; finally
                    /\ alerts' = alerts + 1
                    /\ generatedImages' = mockImages(r)
                    /\ loadingIndicator' = FALSE
                    /\ runs' = Ended(r, outcome)
               ELSE IF \/ run.call = 1 /\ Len(generatedImages) < 3
                       \/ run.call = 2 /\ outcome # "throws"
               THEN /\ runs' = Awaiting(r, outcome, images)
                    /\ UNCHANGED <<alerts, generatedImages, loadingIndicator>>
               ELSE \* the last fetch, or catch (additionalError)
                    /\ generatedImages' = images
                    /\ loadingIndicator' = FALSE
                    /\ runs' = [Ended(r, outcome) EXCEPT ![r].images = images]
                    /\ UNCHANGED alerts
    /\ event' = Ev("generateResponse")
    /\ UNCHANGED <<viewVars, canvasVars, placedImages, imageCache, loading,
                   selectVars, now, toolResets, requests>>

NextGenerate ==
    \/ reimagineImage
    \/ Resized
    \/ ResizeFailed
    \/ ReimagineResponse
    \/ generateImages
    \/ GenerateResponse

SpecGenerate == InitPlace /\ [][NextGenerate]_vars

-----------------------------------------------------------------------------
(* src/proxy-server.js.  The proxy keeps no state of its own; requests     *)
(* holds, per request received, what its handler has done so far: the      *)
(* upstream calls it has sent and the responses it has written.  A handler *)
(* is suspended while busboy parses the body (pc = "parsing") and while    *)
(* its fetch is pending (pc = "fetching").                                 *)

\* req.headers[name] of a header the request does not carry
Undefined == "undefined"
\* !value for a header value or a string
Truthy(v) == v \notin {Undefined, ""}

HeaderValues == {Undefined, "", "key"}

\* the parts of a multipart body
Field(name, val) == [type |-> "field", name |-> name, val |-> val]
File(name, data) == [type |-> "file", name |-> name, val |-> data]
Bodies == { <<>>,
            <<Field("prompt", "a cat")>>,
            <<Field("prompt", "")>>,
            <<Field("style", "oil")>>,
            <<File("image_file", "jpeg")>>,
            <<File("photo", "jpeg")>> }

\* POST requests: any x-api-key, any content type, a body with parts when
\* it is multipart
PostRequests(route) ==
    LET req(k, c, b) ==
            [route |-> route, parts |-> b,
             headers |-> [xApiKey |-> k, monsterApiKey |-> Undefined,
                          contentType |-> c]]
    IN  {req(k, "multipart/form-data", b) : k \in HeaderValues, b \in Bodies}
        \cup {req(k, c, <<>>) : k \in HeaderValues,
                                 c \in {Undefined, "application/json"}}

\* GET requests: the key in x-api-key, in monster-api-key, in both or in
\* neither
GetRequests(route) ==
    { [route |-> route, parts |-> <<>>,
       headers |-> [xApiKey |-> k, monsterApiKey |-> m,
                    contentType |-> Undefined]] :
         k \in HeaderValues, m \in {Undefined, "key"} }

\* busboy({ headers }) throws unless the content type is one it parses
Parseable(contentType) ==
    contentType \in {"multipart/form-data", "application/x-www-form-urlencoded"}

\* what the 'field' listener of /proxy/generate leaves in prompt
ParsedPrompt(parts) ==
    LET idx == {i \in 1..Len(parts) :
                   parts[i].type = "field" /\ parts[i].name = "prompt"}
    IN  IF idx = {} THEN ""
        ELSE parts[CHOOSE i \in idx : \A j \in idx : i >= j].val

\* what the 'file' listener of /proxy/reimagine leaves in imageBuffer
NoBuffer == "null"
ParsedImage(parts) ==
    LET idx == {i \in 1..Len(parts) :
                   parts[i].type = "file" /\ parts[i].name = "image_file"}
    IN  IF idx = {} THEN NoBuffer
        ELSE parts[CHOOSE i \in idx : \A j \in idx : i >= j].val

\* busboy emits 'finish' once every file stream it handed to a 'file'
\* listener has been read to its end; the listener of /proxy/reimagine
\* reads only the files named image_file
Consumed(parts) ==
    \A i \in 1..Len(parts) :
        parts[i].type = "file" => parts[i].name = "image_file"

Response(status, body) == [status |-> status, body |-> body]

\* what an upstream fetch comes to: it throws, or a response; before
\* it has come to anything, NoUpstream
Throws == [throws |-> TRUE, status |-> 0, contentType |-> <<>>, body |-> ""]
NoUpstream == [Throws EXCEPT !.throws = FALSE]
Upstream(status, contentType, body) ==
    [throws |-> FALSE, status |-> status, contentType |-> contentType,
     body |-> body]

\* content types as their words: image/png is <<"image", "png">>, a
\* response without the header has <<>>
ClipdropOutcomes ==
    { Throws,
      Upstream(200, <<"image", "png">>, "png"),
      Upstream(200, <<"application", "json">>, "{}"),
      Upstream(200, <<>>, ""),
      Upstream(402, <<"application", "json">>, "no credits"),
      Upstream(500, <<"text", "html">>, "oops") }
MonsterOutcomes ==
    { Throws,
      Upstream(200, <<"application", "json">>, "{status}"),
      Upstream(404, <<"application", "json">>, "{message}"),
      Upstream(502, <<"text", "html">>, "bad gateway") }

Ok(status) == status \in 200..299                  \* response.ok
Base64(body) == <<"base64", body>>                 \* buffer.toString('base64')

\* the handler has written res and is over
Closed(req, calls, up, res) ==
    [pc |-> "closed", req |-> req, calls |-> calls, upstream |-> up,
     responses |-> <<res>>]
\* the handler has sent call and waits for its answer
Fetching(req, call) ==
    [pc |-> "fetching", req |-> req, calls |-> <<call>>,
     upstream |-> NoUpstream, responses |-> <<>>]

\* the lowest slot that is free
FreeSlot(s) ==
    /\ requests[s] = NoRequest
    /\ \A t \in Slots : t < s => requests[t] # NoRequest

\* the POST handlers up to req.pipe(bb)
Received(req) ==
    IF ~Truthy(req.headers.xApiKey)
    THEN Closed(req, <<>>, NoUpstream,
                Response(401, [error |-> "API key is required"]))
    ELSE IF ~Parseable(req.headers.contentType)
    THEN Closed(req, <<>>, NoUpstream,
                Response(500, [error |-> "Internal server error",
                               details |-> "busboy"]))
    ELSE \* req.pipe(bb): the handler waits for busboy
         [pc |-> "parsing", req |-> req, calls |-> <<>>,
          upstream |-> NoUpstream, responses |-> <<>>]

\* the POST handlers from the upstream response on, and their catch; every
\* response but the default one is 200
relayed_Lenient(up) ==
    IF up.throws
    THEN Response(500, [error |-> "Failed to process request",
                        details |-> "fetch"])
    ELSE IF ~Ok(up.status)
    THEN Response(up.status, [error |-> "Error from Clipdrop API",
                              details |-> up.body, status |-> up.status])
    ELSE Response(200, [success |-> TRUE, image |-> Base64(up.body)])

\* the POST handlers from the upstream response on, and their catch
relayed(up) ==
    IF up.throws
    THEN Response(500, [error |-> "Failed to process request",
                        details |-> "fetch"])
    ELSE IF ~Ok(up.status)
    THEN Response(up.status, [error |-> "Error from Clipdrop API",
                              details |-> up.body, status |-> up.status])
    ELSE IF /\ up.contentType # <<>>
            /\ \E i \in 1..Len(up.contentType) :      \* includes('image')
                   up.contentType[i] = "image"
    THEN Response(200, [success |-> TRUE, image |-> Base64(up.body)])
    ELSE Response(502, [error |-> "Unexpected response type from Clipdrop API",
                        details |-> up.body])

\* the GET handlers up to their fetch, with the key they have read
polling(req, key, url) ==
    IF ~Truthy(key)
    THEN Closed(req, <<>>, NoUpstream,
                Response(401, [error |-> "API key is required"]))
    ELSE Fetching(req, [url |-> url, body |-> <<>>,
                        headers |-> [Authorization |-> <<"Bearer", key>>]])

\* the GET handlers from the upstream response on, and their catch
polled(up, failed, error) ==
    IF up.throws \/ up.contentType # <<"application", "json">>   \* response.json()
    THEN Response(500, [error |-> failed, details |-> "json"])
    ELSE IF ~Ok(up.status)
    THEN Response(up.status, [error |-> error, details |-> up.body,
                              status |-> up.status])
    ELSE Response(200, [json |-> up.body])

\* POST /proxy/generate arrives
PostGenerate ==
    /\ \E s \in Slots, req \in PostRequests("generate") :
        /\ FreeSlot(s)
        /\ requests' = [requests EXCEPT ![s] = Received(req)]
    /\ UNCHANGED <<viewVars, canvasVars, placeVars, event, genVars,
                   toolResets>>

\* bb 'finish' of /proxy/generate, up to its fetch
FinishGenerate ==
    /\ \E s \in Slots :
        LET r      == requests[s]
            prompt == ParsedPrompt(r.req.parts)
        IN  /\ r.pc = "parsing"
            /\ r.req.route = "generate"
            /\ requests' = [requests EXCEPT ![s] =
                 IF ~Truthy(prompt)
                 THEN Closed(r.req, <<>>, NoUpstream,
                             Response(400, [error |-> "Prompt is required"]))
                 ELSE Fetching(r.req,
                         [url |-> "https://clipdrop-api.co/text-to-image/v1",
                          headers |-> [xApiKey |-> r.req.headers.xApiKey],
                          body |-> <<Field("prompt", prompt)>>])]
    /\ UNCHANGED <<viewVars, canvasVars, placeVars, event, genVars,
                   toolResets>>

\* the fetch of /proxy/generate settles
GenerateReturns ==
    /\ \E s \in Slots, up \in ClipdropOutcomes :
        LET r == requests[s]
        IN  /\ r.pc = "fetching"
            /\ r.req.route = "generate"
            /\ requests' = [requests EXCEPT ![s] =
                               Closed(r.req, r.calls, up, relayed(up))]
    /\ UNCHANGED <<viewVars, canvasVars, placeVars, event, genVars,
                   toolResets>>

\* POST /proxy/reimagine arrives
PostReimagine ==
    /\ \E s \in Slots, req \in PostRequests("reimagine") :
        /\ FreeSlot(s)
        /\ requests' = [requests EXCEPT ![s] = Received(req)]
    /\ UNCHANGED <<viewVars, canvasVars, placeVars, event, genVars,
                   toolResets>>

\* bb 'finish' of /proxy/reimagine, up to its fetch
FinishReimagine ==
    /\ \E s \in Slots :
        LET r           == requests[s]
            imageBuffer == ParsedImage(r.req.parts)
        IN  /\ r.pc = "parsing"
            /\ r.req.route = "reimagine"
            /\ Consumed(r.req.parts)
            /\ requests' = [requests EXCEPT ![s] =
                 IF imageBuffer = NoBuffer
                 THEN Closed(r.req, <<>>, NoUpstream,
                             Response(400, [error |-> "Image file is required"]))
                 ELSE Fetching(r.req,
                         [url |-> "https://clipdrop-api.co/reimagine/v1/reimagine",
                          headers |-> [xApiKey |-> r.req.headers.xApiKey],
                          body |-> <<File("image_file", imageBuffer)>>])]
    /\ UNCHANGED <<viewVars, canvasVars, placeVars, event, genVars,
                   toolResets>>

\* the fetch of /proxy/reimagine settles
ReimagineReturns ==
    /\ \E s \in Slots, up \in ClipdropOutcomes :
        LET r == requests[s]
        IN  /\ r.pc = "fetching"
            /\ r.req.route = "reimagine"
            /\ requests' = [requests EXCEPT ![s] =
                               Closed(r.req, r.calls, up, relayed(up))]
    /\ UNCHANGED <<viewVars, canvasVars, placeVars, event, genVars,
                   toolResets>>

\* GET /proxy/status/:processId arrives
GetStatus ==
    /\ \E s \in Slots, req \in GetRequests("status") :
        /\ FreeSlot(s)
        /\ requests' = [requests EXCEPT ![s] =
               polling(req, req.headers.xApiKey,
                       "https://api.monsterapi.ai/v1/status")]
    /\ UNCHANGED <<viewVars, canvasVars, placeVars, event, genVars,
                   toolResets>>

\* the fetch of /proxy/status settles
StatusReturns ==
    /\ \E s \in Slots, up \in MonsterOutcomes :
        LET r == requests[s]
        IN  /\ r.pc = "fetching"
            /\ r.req.route = "status"
            /\ requests' = [requests EXCEPT ![s] =
                   Closed(r.req, r.calls, up,
                          polled(up, "Failed to check status",
                                 "Error from MonsterAPI status check"))]
    /\ UNCHANGED <<viewVars, canvasVars, placeVars, event, genVars,
                   toolResets>>

\* GET /proxy/fetch/:processId arrives
GetFetch ==
    /\ \E s \in Slots, req \in GetRequests("fetch") :
        /\ FreeSlot(s)
        /\ requests' = [requests EXCEPT ![s] =
               polling(req, req.headers.monsterApiKey,
                       "https://api.monsterapi.ai/v1/fetch")]
    /\ UNCHANGED <<viewVars, canvasVars, placeVars, event, genVars,
                   toolResets>>

\* the fetch of /proxy/fetch settles
FetchReturns ==
    /\ \E s \in Slots, up \in MonsterOutcomes :
        LET r == requests[s]
        IN  /\ r.pc = "fetching"
            /\ r.req.route = "fetch"
            /\ requests' = [requests EXCEPT ![s] =
                   Closed(r.req, r.calls, up,
                          polled(up, "Failed to fetch results",
                                 "Error from MonsterAPI fetch"))]
    /\ UNCHANGED <<viewVars, canvasVars, placeVars, event, genVars,
                   toolResets>>

NextProxy ==
    \/ PostGenerate
    \/ FinishGenerate
    \/ GenerateReturns
    \/ PostReimagine
    \/ FinishReimagine
    \/ ReimagineReturns
    \/ GetStatus
    \/ StatusReturns
    \/ GetFetch
    \/ FetchReturns

SpecProxy == InitPlace /\ [][NextProxy]_vars

-----------------------------------------------------------------------------
(* Properties of the viewport *)

\* the viewport is no larger than the virtual canvas
Fits(st) == st.width <= virtualCanvasWidth /\ st.height <= virtualCanvasHeight

\* 0 <= -panOffset <= virtualSize - viewportSize on both axes
InBounds(st) ==
    /\ 0 <= -st.x /\ -st.x <= virtualCanvasWidth - st.width
    /\ 0 <= -st.y /\ -st.y <= virtualCanvasHeight - st.height

Clip(v, lo, hi) == IF v < lo THEN lo ELSE IF v > hi THEN hi ELSE v

\* C1: after every pan step (drag movement, then limitDragBoundaries) the
\* pan offset lies within the bounds, whatever the offset was before and
\* whatever the movement, for a viewport that fits in the virtual canvas.
C1_PanWithinBounds ==
    (event.name = "dragmove" /\ Fits(stage)) => InBounds(stage)

\* a pan that overshot the right edge has been clipped to it
C1_Witness ==
    /\ event.name = "dragmove" /\ event.arg.x = -2500
    /\ Fits(stage)
    /\ stage.x = -(virtualCanvasWidth - stage.width)

\* C2: a pan step clips each axis on its own: the new offset is start +
\* movement where that lies within [-(virtual - viewport), 0] and the
\* violated bound otherwise; with viewport 800x600 and offset
\* (-1100,-1200), a pan by (-2500,0) gives (-2200,-1200).
C2_HardClipPerAxis ==
    [][ (event'.name = "dragmove" /\ Fits(stage)) =>
          /\ stage'.x = Clip(stage.x + event'.arg.x,
                             -(virtualCanvasWidth - stage.width), 0)
          /\ stage'.y = Clip(stage.y + event'.arg.y,
                             -(virtualCanvasHeight - stage.height), 0)
          /\ (stage.width = 800 /\ stage.height = 600 /\ stage.x = -1100
                 /\ stage.y = -1200 /\ event'.arg = Point(-2500, 0))
               => StagePosition(stage') = Point(-2200, -1200) ]_vars

\* the scenario's end state: x clipped to -2200, y left at the centred -1200
C2_Witness ==
    /\ event = [name |-> "dragmove", arg |-> Point(-2500, 0)]
    /\ stage.width = 800 /\ stage.height = 600
    /\ StagePosition(stage) = Point(-2200, -1200)

\* C3: right after every resize the pan offset lies within the bounds
\* of the new viewport (the resize re-clamps it).
C3_ResizeReclamps ==
    (event.name = "resize" /\ Fits(stage)) =>
        /\ stage.width = containerSize.width
        /\ stage.height = containerSize.height
        /\ InBounds(stage)

\* C4: when the constructor has finished, before any pan or resize, the
\* pan offset is the centred one.
C4_StartupCentered ==
    event.name = "ready" =>
        /\ stage.x = -((virtualCanvasWidth - stage.width) \div 2)
        /\ stage.y = -((virtualCanvasHeight - stage.height) \div 2)

\* C5: a resize keeps every offset the user reached by panning that is
\* still within the bounds of the new viewport, the corner (0,0) included.
C5_ResizeKeepsOffset ==
    [][ (event.name = "dragmove" /\ event'.name = "resize"
           /\ Fits(stage') /\ InBounds([stage EXCEPT !.width = stage'.width,
                                                      !.height = stage'.height]))
          => StagePosition(stage') = StagePosition(stage) ]_vars

-----------------------------------------------------------------------------
(* Properties of the input modes *)

PointerEvents == {"mousedown", "mousemove", "mouseup", "dblclick"}

C7_EnterNavigationDeselects ==
    (event.name = "toolclick" /\ isNavigationMode) => transformerNodes = <<>>

\* navigation mode has just been entered with a selectable shape on the layer
C7_Witness ==
    /\ event.name = "toolclick" /\ isNavigationMode
    /\ Selectable # {} /\ transformerNodes = <<>>

\* C8: the point that starts a shape is the pointer position translated by
\* the pan offset, p - o.
C8_PointerTranslated ==
    [][ (event'.name = "mousedown" /\ layer' # layer) =>
          startPoint' = Point(event'.arg.x - stage.x, event'.arg.y - stage.y) ]_vars

-----------------------------------------------------------------------------
(* Properties of image placement *)

Images == {placedImages[i] : i \in 1..Len(placedImages)}

\* width : height = naturalWidth : naturalHeight
KeepsAspect(img) ==
    Mul(img.width, Num(img.url.naturalHeight))
        = Mul(img.height, Num(img.url.naturalWidth))

LongerEdge(img) == Larger(img.width, img.height)
NaturalLonger(img) == Max(img.url.naturalWidth, img.url.naturalHeight)

\* C9 as stated: the box keeps the natural aspect ratio and its longer edge
\* is 300 when the source's longer edge exceeds 300, and the source's
\* natural longer edge otherwise.
C9_LongerEdgeCappedOrNatural ==
    \A img \in Images :
        /\ KeepsAspect(img)
        /\ LongerEdge(img) = IF NaturalLonger(img) > maxSize
                             THEN Num(maxSize) ELSE Num(NaturalLonger(img))

\* C10: the box is centred on the requested point; a source wider than
\* tall gets width 300 and the derived height, any other source height 300
\* and the derived width; centre (500,500) with a 1600x800 source gives
\* width 300, height 150, origin (350,425).
C10_CentredBox ==
    event.name = "placed" =>
        LET img == placedImages[Len(placedImages)]
            nw  == img.url.naturalWidth
            nh  == img.url.naturalHeight
            c   == event.arg
        IN  /\ IF nw > nh
               THEN /\ img.width = Num(maxSize)
                    /\ img.height = Frac(maxSize * nh, nw)
               ELSE /\ img.height = Num(maxSize)
                    /\ img.width = Frac(maxSize * nw, nh)
            /\ Mul(Num(2), Sub(Num(c.x), img.x)) = img.width
            /\ Mul(Num(2), Sub(Num(c.y), img.y)) = img.height
            /\ (nw = 1600 /\ nh = 800 /\ c = Point(500, 500))
                 => /\ img.width = Num(300) /\ img.height = Num(150)
                    /\ img.x = Num(350) /\ img.y = Num(425)

\* the scenario: a 1600x800 source placed at (500,500)
C10_Witness ==
    /\ event = [name |-> "placed", arg |-> Point(500, 500)]
    /\ placedImages[Len(placedImages)].url
           = [naturalWidth |-> 1600, naturalHeight |-> 800]
    /\ placedImages[Len(placedImages)].x = Num(350)
    /\ placedImages[Len(placedImages)].y = Num(425)

-----------------------------------------------------------------------------
(* Properties of the placed images *)

Last(q) == q[Len(q)]

\* C11: every placement appends one image with selected = false at the end
\* of placedImages, and the ids of placedImages are pairwise distinct,
\* also for placements that complete in the same millisecond.
C11_AppendedWithDistinctIds ==
    [][ Len(placedImages') > Len(placedImages) =>
          /\ placedImages' = Append(placedImages, Last(placedImages'))
          /\ ~Last(placedImages').selected
          /\ \A i, j \in 1..Len(placedImages') :
                 i # j => placedImages'[i].id # placedImages'[j].id ]_vars

\* C20: no decode is started for a url while a decode of the same url is
\* in flight, so that no url is ever decoded twice.
C20_OneDecodePerUrl ==
    [][ Len(Placing(loading')) > Len(Placing(loading)) =>
          \A i \in 1..Len(Placing(loading)) :
              Placing(loading)[i].url # Last(Placing(loading')).url ]_vars

\* x <= px <= x + width and y <= py <= y + height
InBox(img, p) ==
    /\ Le(img.x, Num(p.x)) /\ Le(Num(p.x), Add(img.x, img.width))
    /\ Le(img.y, Num(p.y)) /\ Le(Num(p.y), Add(img.y, img.height))

\* the images whose box contains the point, by position in the order
BoxesAt(p) == {i \in 1..Len(placedImages) : InBox(placedImages[i], p)}
TopAt(p) == CHOOSE i \in BoxesAt(p) : \A j \in BoxesAt(p) : j <= i

SelectedOnes(images) == {i \in 1..Len(images) : images[i].selected}

\* C12: selectImageAt picks the image latest in the order among those whose
\* box contains the point, edges included, and returns false and changes
\* nothing when no box contains the point.
C12_HitTestTopmostInclusive ==
    [][ /\ event'.name = "selectImageAt:true" =>
              /\ BoxesAt(event'.arg) # {}
              /\ selectedImageId' = placedImages[TopAt(event'.arg)].id
              /\ Last(placedImages') =
                   [placedImages[TopAt(event'.arg)] EXCEPT !.selected = TRUE]
        /\ event'.name = "selectImageAt:false" =>
              /\ BoxesAt(event'.arg) = {}
              /\ UNCHANGED <<placedImages, selectedImageId, dragOffset,
                             currentTool>> ]_vars

\* two images contain the shared centre and the later one was picked
C12_Witness ==
    /\ event = [name |-> "selectImageAt:true", arg |-> Point(400, 300)]
    /\ Len(placedImages) = 2
    /\ InBox(placedImages[1], Point(400, 300))
    /\ placedImages[2].selected

\* C13: after a successful selection of image I, I is the last element of
\* placedImages and the only one with selected = true, and the drag offset
\* is the hit point minus I's origin; so with two images over the same
\* centre the hit test there yields the later one, and yields the earlier
\* one once that has been selected.
C13_SelectedIsLastAndOnly ==
    [][ event'.name = "selectImageAt:true" =>
          LET I == placedImages[TopAt(event'.arg)]
              p == event'.arg
          IN  /\ Last(placedImages').id = I.id
              /\ Last(placedImages').url = I.url
              /\ SelectedOnes(placedImages') = {Len(placedImages')}
              /\ dragOffset' = [x |-> Sub(Num(p.x), I.x), y |-> Sub(Num(p.y), I.y)]
              /\ HitIndex(placedImages', p.x, p.y) = Len(placedImages') ]_vars

\* the 300x150 image was picked at the centre although the 150x300 image,
\* which contains the centre too, is in the list
C13_Witness ==
    /\ event = [name |-> "selectImageAt:true", arg |-> Point(400, 300)]
    /\ Len(placedImages) = 2
    /\ placedImages[2].width = Num(300) /\ placedImages[2].height = Num(150)
    /\ placedImages[1].width = Num(150) /\ InBox(placedImages[1], Point(400, 300))
    /\ dragOffset = [x |-> Num(150), y |-> Num(75)]
    /\ SelectedOnes(placedImages) = {2}

\* C14: at most one placed image is selected at any time, and exactly one,
\* the one of the selected id, from a successful selection to the next
\* deselect or delete.
C14_AtMostOneSelected ==
    /\ Cardinality(SelectedOnes(placedImages)) <= 1
    /\ selectedImageId # NoId =>
          \E i \in 1..Len(placedImages) :
              /\ SelectedOnes(placedImages) = {i}
              /\ placedImages[i].id = selectedImageId
    /\ selectedImageId = NoId => SelectedOnes(placedImages) = {}

\* an image was placed while another one was selected, and that one still
\* is the only selected image
C14_Witness ==
    /\ event.name = "placed"
    /\ Len(placedImages) = 2
    /\ selectedImageId = placedImages[1].id
    /\ SelectedOnes(placedImages) = {1}

\* C15: deselectAllImages clears selected on every image and the selected
\* id, leaves the order, ids and boxes alone, and a second call in a row
\* changes nothing.
C15_DeselectAllIdempotent ==
    [][ event'.name = "deselectAllImages" =>
          /\ Len(placedImages') = Len(placedImages)
          /\ \A i \in 1..Len(placedImages) :
                 placedImages'[i] = [placedImages[i] EXCEPT !.selected = FALSE]
          /\ selectedImageId' = NoId
          /\ Deselected(placedImages') = placedImages' ]_vars

\* deselectAllImages has cleared a selection among two images
C15_Witness ==
    /\ event.name = "deselectAllImages"
    /\ Len(placedImages) = 2
    /\ dragOffset # [x |-> Num(0), y |-> Num(0)]
    /\ SelectedOnes(placedImages) = {}

\* C16: deleteSelectedImage removes exactly the image that is selected and
\* keeps every other image, in the same order; with no image selected it
\* leaves placedImages and the selection as they are.
C16_DeleteExactlySelected ==
    [][ event'.name = "deleteSelectedImage" =>
          /\ placedImages' = SelectSeq(placedImages, LAMBDA img : ~img.selected)
          /\ SelectedOnes(placedImages) = {} => selectedImageId' = selectedImageId ]_vars

\* C17: with a placed image selected, a Delete or Backspace key press
\* removes that image from placedImages, as the delete button does.
C17_KeyboardDeletesImage ==
    [][ (event'.name \in {"keydown:Delete", "keydown:Backspace"}
            /\ SelectedOnes(placedImages) # {}) =>
          placedImages' = SelectSeq(placedImages, LAMBDA img : ~img.selected) ]_vars

\* C18: a pointer-down in drawing mode at a point inside a placed image
\* selects that image, makes it the last of placedImages and starts no
\* stroke or shape; a stroke or shape starts only where no image is.
C18_PointerDownQueriesRegistry ==
    [][ (event'.name = "mousedown" /\ ~isNavigationMode
            /\ BoxesAt(event'.arg) # {}) =>
          /\ Last(placedImages').selected
          /\ Last(placedImages').id = placedImages[TopAt(event'.arg)].id
          /\ UNCHANGED <<isDrawing, activeShape, layer>> ]_vars

\* C19: once a pointer-down has hit a placed image, a pointer-move with the
\* button held puts the image's origin at the pointer minus the offset
\* recorded at the pointer-down, unclamped, and the release leaves the
\* image selected.
C19_DragMovesSelectedImage ==
    [][ /\ (event.name = "mousedown" /\ event'.name = "mousemove"
               /\ ~isNavigationMode /\ BoxesAt(event.arg) # {}) =>
              LET img == placedImages[TopAt(event.arg)]
              IN  /\ Last(placedImages').x =
                        Sub(Num(event'.arg.x), Sub(Num(event.arg.x), img.x))
                  /\ Last(placedImages').y =
                        Sub(Num(event'.arg.y), Sub(Num(event.arg.y), img.y))
        /\ (event.name = "mousemove" /\ event'.name = "mouseup"
               /\ ~isNavigationMode /\ SelectedOnes(placedImages) # {}) =>
              SelectedOnes(placedImages') = SelectedOnes(placedImages) ]_vars

\* C21: a decode that fails abandons that one placement: placedImages, the
\* selection and imageCache stay as they are, the user is notified, and the
\* other decodes in flight stay in flight.
C21_DecodeFailureAborts ==
    [][ event'.name = "onerror" =>
          /\ UNCHANGED <<placedImages, selectedImageId, imageCache>>
          /\ \E i \in 1..Len(loading) :
                /\ loading' = RemoveAt(loading, i)
                /\ loading[i].kind # "dragImg" => alerts' = alerts + 1 ]_vars

\* a placement has failed with the user notified while another decode is
\* still in flight and an image is placed
C21_Witness ==
    /\ event.name = "onerror"
    /\ alerts = 1
    /\ Len(Placing(loading)) = 1
    /\ Len(placedImages) = 1
    /\ Last(loading).url \notin imageCache

\* the requests of the two POST routes that the proxy has received
Posted == {s \in Slots : requests[s].pc # "free"
                          /\ requests[s].req.route \in {"generate", "reimagine"}}
\* the requests of the two GET routes that the proxy has received
Polled == {s \in Slots : requests[s].pc # "free"
                          /\ requests[s].req.route \in {"status", "fetch"}}

\* the request carries the field its route requires
HasRequired(req) ==
    \E i \in 1..Len(req.parts) :
        IF req.route = "generate"
        THEN req.parts[i].type = "field" /\ req.parts[i].name = "prompt"
        ELSE req.parts[i].type = "file" /\ req.parts[i].name = "image_file"

\* the request passes the validation of its route: a key, a multipart body
\* and in it the required field with a value
Validated(req) ==
    /\ Truthy(req.headers.xApiKey)
    /\ req.headers.contentType = "multipart/form-data"
    /\ IF req.route = "generate"
       THEN Truthy(ParsedPrompt(req.parts))
       ELSE ParsedImage(req.parts) # NoBuffer

\* C22: a POST to /proxy/generate or /proxy/reimagine without the
\* x-api-key header is answered 401; one with a key but without the
\* required field (prompt, image_file) is answered 400 once it is answered;
\* neither is passed on to the upstream API.
C22_InputValidation ==
    \A s \in Posted :
        LET r == requests[s]
        IN  /\ r.req.headers.xApiKey = Undefined =>
                  /\ r.pc = "closed"
                  /\ r.responses[1].status = 401
                  /\ r.calls = <<>>
            /\ (Truthy(r.req.headers.xApiKey) /\ ~HasRequired(r.req)) =>
                  /\ r.calls = <<>>
                  /\ r.pc = "closed" => r.responses[1].status = 400

\* C23: for a validated POST the proxy sends one upstream call and writes
\* one response, which the upstream's answer determines: success with an
\* image content type gives 200 {success: true, image}, success with
\* another content type 502, a status that is not a success that status
\* with {error, details}; there is no second call.
C23_OneCallOneResponse ==
    \A s \in Posted :
        LET r  == requests[s]
            up == r.upstream
        IN  Validated(r.req) =>
              /\ Len(r.calls) <= 1
              /\ Len(r.responses) <= 1
              /\ r.pc = "fetching" => (Len(r.calls) = 1 /\ r.responses = <<>>)
              /\ r.pc = "closed" =>
                    /\ Len(r.calls) = 1
                    /\ Len(r.responses) = 1
                    /\ (~up.throws /\ Ok(up.status) /\ up.contentType # <<>>
                           /\ up.contentType[1] = "image") =>
                          r.responses[1] =
                             Response(200, [success |-> TRUE,
                                            image |-> Base64(up.body)])
                    /\ (~up.throws /\ Ok(up.status)
                           /\ (up.contentType = <<>> \/ up.contentType[1] # "image")) =>
                          r.responses[1].status = 502
                    /\ (~up.throws /\ ~Ok(up.status)) =>
                          /\ r.responses[1].status = up.status
                          /\ {"error", "details"} \subseteq DOMAIN r.responses[1].body

\* two validated POSTs have been answered, one 502 for an upstream success
\* that is no image, one with the upstream's 402
C23_Witness ==
    \E s, t \in Posted :
        /\ Validated(requests[s].req) /\ Validated(requests[t].req)
        /\ requests[s].pc = "closed" /\ requests[t].pc = "closed"
        /\ requests[s].req.route = "generate"
        /\ requests[t].req.route = "reimagine"
        /\ Ok(requests[s].upstream.status)
        /\ requests[s].responses[1].status = 502
        /\ requests[t].upstream.status = 402
        /\ requests[t].responses[1].status = 402

\* C24: the GET routes /proxy/status and /proxy/fetch take the API key
\* from the x-api-key header like the POST routes: a request with a key in
\* x-api-key is passed on upstream, and 401 is the answer only to a
\* request without one.
C24_SameAuthHeader ==
    \A s \in Polled :
        LET r == requests[s]
        IN  /\ Truthy(r.req.headers.xApiKey) => Len(r.calls) = 1
            /\ (r.pc = "closed" /\ r.responses[1].status = 401) =>
                  ~Truthy(r.req.headers.xApiKey)

\* the images run r is due for the outcomes of its fetches: one per fetch
\* that came back with an image
Due(r, outcomes) ==
    LET got == SelectSeq([n \in 1..Len(outcomes) |-> n],
                         LAMBDA n : outcomes[n] = "image")
    IN  [i \in 1..Len(got) |-> GeneratedImage(got[i], ApiUrl(r, got[i]))]

\* C25: when the first fetch of a run has succeeded, the run ends with
\* generatedImages holding the first image and one image for each later
\* fetch that succeeded, whether a later fetch failed with a status or
\* threw.
C25_PartialSuccess ==
    [][ \A r \in 1..Len(runs) :
          (runs[r].pc = "fetch" /\ runs'[r].pc = "done"
             /\ runs'[r].outcomes[1] = "image") =>
            generatedImages' = Due(r, runs'[r].outcomes) ]_vars

\* C26: navigation mode is on exactly when the current tool is
\* 'navigation', whatever tool buttons are clicked and thumbnails
\* double-clicked, and whenever the timers of the double-clicks fire.
C26_NavigationIffTool ==
    phase = "ready" => (isNavigationMode <=> currentTool = "navigation")

\* C27: selectImageAt only reorders placedImages: the number of images
\* and their boxes and urls stay, and the images that were not picked keep
\* their order, also when two images carry the same id.
C27_SelectionOnlyReorders ==
    [][ event'.name = "selectImageAt:true" =>
          LET i == TopAt(event'.arg)
          IN  /\ Len(placedImages') = Len(placedImages)
              /\ Deselected(SubSeq(placedImages', 1, Len(placedImages') - 1))
                   = Deselected(RemoveAt(placedImages, i)) ]_vars

\* C28: limitDragBoundaries is idempotent for every stage position and
\* viewport size, a viewport larger than the virtual canvas included:
\* applied again right after a pan step it leaves the stage where it is.
C28_LimitIdempotent ==
    event.name = "dragmove" => limitDragBoundaries(stage) = stage

\* the node that the drawing tool creates in startDrawing
ToolKind(tool) ==
    CASE tool = "pencil"                  -> "Line"
      [] tool = "circle"                  -> "Ellipse"
      [] tool \in {"rectangle", "square"} -> "Rect"
      [] OTHER                            -> "none"

\* C29: whenever draw or stopDrawing updates the active shape for the
\* current tool, the shape is one that this tool creates: nothing that
\* happens between pointer-down and pointer-up changes the tool under the
\* gesture.
C29_ShapeMatchesTool ==
    [][ (event'.name \in {"mousemove", "mouseup"}
           /\ ~isNavigationMode /\ isDrawing /\ activeShape # NoShape
           /\ ToolKind(currentTool) # "none") =>
          nodes[activeShape].kind = ToolKind(currentTool) ]_vars

\* C30: while a reimagineImage run is unfinished the loading indicator is
\* shown, and once all runs are over the images shown are those of the
\* run that started last.
C30_LastRunWins ==
    (\A r \in 1..Len(runs) : runs[r].kind = "reimagine") =>
       /\ (\E r \in 1..Len(runs) : runs[r].pc # "done") => loadingIndicator
       /\ (runs # <<>> /\ \A r \in 1..Len(runs) : runs[r].pc = "done") =>
             \A i \in 1..Len(generatedImages) :
                 generatedImages[i].url.src.run = Len(runs)

====
